---- MODULE Spec2Model ----
(***************************************************************************)
(* The srf311t1 elliptic-curve kernel of src/hardware.py (the same class   *)
(* is repeated in src/universe.py): the modular inverse _modinv and the    *)
(* group law point_add, every call of which is one step of the machine.    *)
(*                                                                         *)
(* srf311t1.__init__ takes no argument and stores a fixed 311-bit prime p, *)
(* coefficients a, b in [0, p) of a non-singular curve                     *)
(* y^2 = x^3 + a*x + b, and a generator G = (1, Gy) that lies on it.       *)
(* Integers of that size are out of the model checker's range, so the      *)
(* engine is scaled down: Init draws it from every engine with the same    *)
(* arithmetic properties over the primes 5..MaxP.                          *)
(*                                                                         *)
(* On top of the kernel: the stepping wrapper of the specification (an     *)
(* accumulator advanced by G) and the Spacetime lattices of                *)
(* src/universe.py and src/lattice.py with the loops that drive them,      *)
(* stepped one cell at a time.                                             *)
(***************************************************************************)
EXTENDS Integers, Sequences, FiniteSets, TLC

VARIABLES
    engine,   \* the srf311t1 object: its fields p, a, b, Gx, Gy, G, O
    call      \* the caller's view of the method call it made on the engine:
              \* op ("idle" between calls, "point_add", "_modinv"), the
              \* arguments (P, Q or a), the value returned (ret), the exception
              \* raised (exc, "none" when it returned) and the operands that
              \* reached _modinv during the call, in order (inv)

VARIABLES
    acc,      \* the accumulator point of the stepping wrapper, G at first
    steps     \* its scalar counter k, 0 at first

VARIABLES
    lat       \* the Spacetime objects built on the engine, by instance number,
              \* each with the frame of the loop that drives it: kind (the
              \* class, "universe" for universe.py, "lattice" for lattice.py),
              \* mode ("run" for Spacetime.run, "main" for the main block of
              \* universe.py), the attributes size, grid, tick, the locals
              \* next_grid, shared (next_grid is the very object self.grid, as
              \* it is from the swap to the next rebuild), pos (cells of the
              \* sweep already computed) and
              \* tick_num, the position pc ("loop" between iterations, "head"
              \* inside an iteration before next_grid is built, "sweep",
              \* "report" before the periodic report, "handler" inside the
              \* KeyboardInterrupt handler of run(), "reported" after the last
              \* print of the final report, "halted", "done",
              \* "interrupted", "crashed"), the exception that ended the loop
              \* (exc), the last report printed (out), the number of
              \* full-grid updates completed (updates) and the number of
              \* ticks the model lets run() make (cap)

vars == <<engine, call, acc, steps, lat>>

(***************************************************************************)
(* Bounds of the model.                                                    *)
(***************************************************************************)
\* largest modulus of the scaled-down engines
MaxP == 7
\* coordinates of the raw (unreduced) points lie in -Slack .. p-1+Slack
Slack == 1
\* operands of direct _modinv calls lie in -Span*p .. Span*p
Span == 2
\* step() is called at most MaxSteps times
MaxSteps == 14
\* Spacetime objects have size 1..MaxSize
MaxSize == 3
\* a lattice driven by run() alone makes at most MaxTicks ticks
MaxTicks == 10
\* each of two lattices driven side by side makes at most PairTicks ticks
PairTicks == 2
\* largest modulus of the engines two lattices are driven side by side on
PairMaxP == 5
\* two lattices driven side by side have size 1..PairSize
PairSize == 2

(***************************************************************************)
(* The engine.                                                             *)
(***************************************************************************)
\* self.O = None: the point at infinity, a value different from every pair
None == <<>>

\* self.Gx = 1
Gx == 1

IsPrime(n) == n > 1 /\ \A d \in 2..(n - 1) : n % d # 0

\* y^2 = x^3 + a*x + b (mod p) for a coordinate pair
OnCurveOf(p, a, b, x, y) == (y * y - (x * x * x + a * x + b)) % p = 0

\* 4a^3 + 27b^2 # 0 (mod p), as for the constants of __init__
NonSingular(p, a, b) == (4 * a * a * a + 27 * b * b) % p # 0

\* the objects srf311t1() can be, scaled down
Engines ==
    { [p |-> p, a |-> a, b |-> b, Gx |-> Gx, Gy |-> Gy, G |-> <<Gx, Gy>>, O |-> None] :
        <<p, a, b, Gy>> \in
            { t \in (5..MaxP) \X (0..(MaxP - 1)) \X (0..(MaxP - 1)) \X (0..(MaxP - 1)) :
                /\ IsPrime(t[1])
                /\ t[2] < t[1] /\ t[3] < t[1] /\ t[4] < t[1]
                /\ NonSingular(t[1], t[2], t[3])
                /\ OnCurveOf(t[1], t[2], t[3], Gx, t[4]) } }

(***************************************************************************)
(* pow(a, -1, n) of the Python runtime: the extended Euclidean loop,       *)
(* ValueError when a is not invertible, the result reduced into [0, n).    *)
(***************************************************************************)
RECURSIVE invmod_loop(_, _, _, _)
invmod_loop(a, n, b, c) ==
    IF n = 0 THEN [g |-> a, coef |-> b]
    ELSE invmod_loop(n, a % n, c, b - (a \div n) * c)

\* pow_inv without the final reduction of the Bezout coefficient
pow_inv_unreduced(a, n) ==
    LET r == invmod_loop(a, n, 1, 0)
    IN  IF r.g # 1 THEN [exc |-> "ValueError", ret |-> 0]
        ELSE [exc |-> "none", ret |-> r.coef]

pow_inv(a, n) ==
    LET r == invmod_loop(a, n, 1, 0)
    IN  IF r.g # 1 THEN [exc |-> "ValueError", ret |-> 0]
        ELSE [exc |-> "none", ret |-> r.coef % n]

(***************************************************************************)
(* srf311t1._modinv                                                        *)
(***************************************************************************)
\* one call: what it returns or raises, and the operand it was handed
_modinv_run(a) ==
    IF a % engine.p # 0
        THEN LET r == pow_inv(a, engine.p)
             IN  [exc |-> r.exc, ret |-> r.ret, inv |-> <<a>>]
        ELSE [exc |-> "none", ret |-> 0, inv |-> <<a>>]

\* the value of a call that returns
_modinv(a) == _modinv_run(a).ret

(***************************************************************************)
(* srf311t1.point_add                                                      *)
(***************************************************************************)
\* a call that returns R without reaching _modinv
Done(R) == [ret |-> R, exc |-> "none", inv |-> <<>>]

\* line 25: Q is taken for the negation of P
is_negation(P, Q) ==
    /\ (P[1] % engine.p) = (Q[1] % engine.p)
    /\ (P[2] % engine.p) = (engine.p - (Q[2] % engine.p))

\* finish with Rx = lam^2 - 2*Px, which is right for a doubling only
finish_rx_px_twice(P, Q, num, m) ==
    IF m.exc # "none" THEN [ret |-> None, exc |-> m.exc, inv |-> m.inv]
    ELSE LET lam == (num * m.ret) % engine.p
             Rx == (lam * lam - P[1] - P[1]) % engine.p
             Ry == (lam * (P[1] - Rx) - P[2]) % engine.p
         IN  [ret |-> <<Rx, Ry>>, exc |-> "none", inv |-> m.inv]

\* finish with Ry taken from Q's ordinate: Ry = lam*(Px - Rx) - Qy
finish_ry_from_q(P, Q, num, m) ==
    IF m.exc # "none" THEN [ret |-> None, exc |-> m.exc, inv |-> m.inv]
    ELSE LET lam == (num * m.ret) % engine.p
             Rx == (lam * lam - P[1] - Q[1]) % engine.p
             Ry == (lam * (P[1] - Rx) - Q[2]) % engine.p
         IN  [ret |-> <<Rx, Ry>>, exc |-> "none", inv |-> m.inv]

\* lines 35-37, with lam = num * m.ret % p and m the _modinv call of the slope
finish(P, Q, num, m) ==
    IF m.exc # "none" THEN [ret |-> None, exc |-> m.exc, inv |-> m.inv]
    ELSE LET lam == (num * m.ret) % engine.p
             Rx == (lam * lam - P[1] - Q[1]) % engine.p
             Ry == (lam * (P[1] - Rx) - P[2]) % engine.p
         IN  [ret |-> <<Rx, Ry>>, exc |-> "none", inv |-> m.inv]

\* double_case without the Py == 0 test
double_case_no_zero_test(P, Q) ==
    finish(P, Q, 3 * P[1] * P[1] + engine.a, _modinv_run(2 * P[2]))

\* double_case with the tangent slope 2*Px^2 + a
double_case_slope_two(P, Q) ==
    IF P[2] = 0 THEN Done(engine.O)
    ELSE finish(P, Q, 2 * P[1] * P[1] + engine.a, _modinv_run(2 * P[2]))

\* lines 29-30: the doubling branch
double_case(P, Q) ==
    IF P[2] = 0 THEN Done(engine.O)
    ELSE finish(P, Q, 3 * P[1] * P[1] + engine.a, _modinv_run(2 * P[2]))

\* add_case with the slope's denominator taken as Px - Qx
add_case_denominator_swapped(P, Q) ==
    IF P[1] = Q[1] THEN Done(engine.O)
    ELSE finish(P, Q, Q[2] - P[2], _modinv_run(P[1] - Q[1]))

\* add_case without the Px == Qx test
add_case_no_equal_x_test(P, Q) ==
    finish(P, Q, Q[2] - P[2], _modinv_run(Q[1] - P[1]))

\* lines 32-33: the addition branch
add_case(P, Q) ==
    IF P[1] = Q[1] THEN Done(engine.O)
    ELSE finish(P, Q, Q[2] - P[2], _modinv_run(Q[1] - P[1]))

\* lines 22-37: both arguments are coordinate pairs
add_finite(P, Q) ==
    IF is_negation(P, Q) THEN Done(engine.O)
    ELSE IF P[1] = Q[1] /\ P[2] = Q[2] THEN double_case(P, Q)
    ELSE add_case(P, Q)

\* point_add_run returning Q where line 20 returns P
point_add_run_returns_q(P, Q) ==
    IF P = engine.O THEN Done(Q)
    ELSE IF Q = engine.O THEN Done(Q)
    ELSE add_finite(P, Q)

\* one call: what it returns or raises, and what it handed to _modinv
point_add_run(P, Q) ==
    IF P = engine.O THEN Done(Q)
    ELSE IF Q = engine.O THEN Done(P)
    ELSE add_finite(P, Q)

\* the value of a call that returns
point_add(P, Q) == point_add_run(P, Q).ret

\* point_add keeping its result in self.G
engine_after_stores_g(r) == [engine EXCEPT !.G = r.ret]

\* the engine after a point_add or _modinv call with outcome r: neither
\* method assigns an attribute of self
engine_after(r) == engine

(***************************************************************************)
(* The inputs of the calls.                                                *)
(***************************************************************************)
\* coordinates reduced into [0, p)
Field == 0..(engine.p - 1)

\* coordinates a caller may pass without reducing them
RawCoords == (0 - Slack)..(engine.p - 1 + Slack)

RawPoints == {None} \cup (RawCoords \X RawCoords)

Operands == (0 - Span * engine.p)..(Span * engine.p)

IsPair(R) == R # None

Reduced(R) == IsPair(R) /\ R[1] \in Field /\ R[2] \in Field

OnCurve(R) == IsPair(R) /\ OnCurveOf(engine.p, engine.a, engine.b, R[1], R[2])

\* a valid point: the identity or a reduced pair on the curve
Valid(R) == R = None \/ (Reduced(R) /\ OnCurve(R))

ValidPoints == {None} \cup {R \in Field \X Field : OnCurve(R)}

(***************************************************************************)
(* The machine: construction, then any sequence of calls.                  *)
(***************************************************************************)
\* no Spacetime object has been built
NoLattice == <<>>

Init ==
    /\ engine \in Engines
    /\ call = [op |-> "idle"]
    /\ acc = engine.G
    /\ steps = 0
    /\ lat = NoLattice

CallPointAdd ==
    /\ call.op = "idle"
    /\ \E A \in RawPoints, B \in RawPoints :
          LET r == point_add_run(A, B)
          IN  /\ call' = [op |-> "point_add", P |-> A, Q |-> B,
                          ret |-> r.ret, exc |-> r.exc, inv |-> r.inv]
              /\ engine' = engine_after(r)
              /\ UNCHANGED <<acc, steps, lat>>

CallModinv ==
    /\ call.op = "idle"
    /\ \E x \in Operands :
          LET r == _modinv_run(x)
          IN  /\ call' = [op |-> "_modinv", a |-> x,
                          ret |-> r.ret, exc |-> r.exc, inv |-> r.inv]
              /\ engine' = engine_after(r)
              /\ UNCHANGED <<acc, steps, lat>>

\* the caller has consumed the result and is ready for its next call
Return ==
    /\ call.op # "idle"
    /\ call' = [op |-> "idle"]
    /\ UNCHANGED <<engine, acc, steps, lat>>

Next == CallPointAdd \/ CallModinv \/ Return

Spec == Init /\ [][Next]_vars

(***************************************************************************)
(* The stepping wrapper: step() adds G to the accumulator and counts.      *)
(* Its output (k, accumulator.x) is left out: it does not change the       *)
(* state.                                                                  *)
(***************************************************************************)
\* step() adding the accumulator to itself instead of G
step_run_doubles ==
    LET r == point_add_run(acc, acc)
    IN  [acc |-> r.ret, k |-> steps + 1, exc |-> r.exc]

step_run ==
    LET r == point_add_run(acc, engine.G)
    IN  [acc |-> r.ret, k |-> steps + 1, exc |-> r.exc]

Step ==
    /\ steps < MaxSteps
    /\ step_run.exc = "none"
    /\ acc' = step_run.acc
    /\ steps' = step_run.k
    /\ engine' = engine_after(step_run)
    /\ UNCHANGED <<call, lat>>

SpecStep == Init /\ [][Step]_vars

(***************************************************************************)
(* Spacetime (src/universe.py, src/lattice.py): a size^3 torus of points.  *)
(* A grid is a function from the cells <<i, j, k>> to points.              *)
(***************************************************************************)
Cells(size) == (0..(size - 1)) \X (0..(size - 1)) \X (0..(size - 1))

\* the cell the nested loops over i, j, k reach after n cells
CellAt(size, n) == <<n \div (size * size), (n \div size) % size, n % size>>

\* [[[engine.O ...]]] and np.full((size, size, size), engine.O)
EmptyGrid(size) == [c \in Cells(size) |-> engine.O]

\* Spacetime.__init__ of either class
NewSpacetime(kind, mode, size, cap) ==
    LET center == size \div 2
    IN  [kind |-> kind, mode |-> mode, size |-> size,
         grid |-> [EmptyGrid(size) EXCEPT ![<<center, center, center>>] = engine.G],
         tick |-> 0,
         next_grid |-> <<>>, shared |-> FALSE, pos |-> 0, tick_num |-> 0,
         pc |-> "loop", exc |-> "none", out |-> [what |-> "none"],
         updates |-> 0, cap |-> cap]

\* total = point_add(total, n) for n in neighbors
RECURSIVE fold_add(_, _)
fold_add(total, ns) ==
    IF ns = <<>> THEN total
    ELSE fold_add(point_add(total, Head(ns)), Tail(ns))

\* the neighbors list read from a grid shared by all instances (the grid of
\* the first lattice) instead of self.grid
neighbors_of_shared_grid(L, i, j, k) ==
    LET g == lat[1].grid
    IN  << g[<<i, (j + 1) % L.size, k>>],
           g[<<i, (j - 1) % L.size, k>>],
           g[<<(i + 1) % L.size, j, k>>],
           g[<<(i - 1) % L.size, j, k>>],
           g[<<i, j, (k + 1) % L.size>>],
           g[<<i, j, (k - 1) % L.size>>] >>

\* the neighbors list of _update_cell
neighbors(L, i, j, k) ==
    << L.grid[<<i, (j + 1) % L.size, k>>],
       L.grid[<<i, (j - 1) % L.size, k>>],
       L.grid[<<(i + 1) % L.size, j, k>>],
       L.grid[<<(i - 1) % L.size, j, k>>],
       L.grid[<<i, j, (k + 1) % L.size>>],
       L.grid[<<i, j, (k - 1) % L.size>>] >>

\* _update_cell reading the grid under construction instead of self.grid
_update_cell_in_place(L, i, j, k) ==
    LET M == [L EXCEPT !.grid = L.next_grid]
    IN  fold_add(M.grid[<<i, j, k>>], neighbors(M, i, j, k))

\* _update_cell with total starting from engine.O instead of the cell
_update_cell_without_self(L, i, j, k) == fold_add(engine.O, neighbors(L, i, j, k))

\* Spacetime._update_cell of either class
_update_cell(L, i, j, k) == fold_add(L.grid[<<i, j, k>>], neighbors(L, i, j, k))

\* the cells that are not engine.O
ActiveCells(L) == {c \in Cells(L.size) : L.grid[c] # engine.O}

\* sum(xs)
RECURSIVE SumX(_, _)
SumX(L, S) ==
    IF S = {} THEN 0
    ELSE LET c == CHOOSE c \in S : TRUE
         IN  L.grid[c][1] + SumX(L, S \ {c})

\* Spacetime._measure of either class; the quotients avg_x / p and
\* 1.0 - avg_x / p are kept as fractions <<numerator, denominator>>
_measure(L) ==
    LET active_count == Cardinality(ActiveCells(L))
        sum_xs == SumX(L, ActiveCells(L))
    IN  IF active_count = 0
        THEN [alpha |-> <<0, 1>>, mu |-> 0, omega |-> <<0, 1>>]
        ELSE [alpha |-> <<sum_xs, active_count * engine.p>>,
              mu |-> active_count,
              omega |-> <<active_count * engine.p - sum_xs, active_count * engine.p>>]

\* the report lines of universe.py: 1/a if a != 0 else float('inf')
report_universe(L, what) ==
    LET m == _measure(L)
    IN  [exc |-> "none",
         out |-> [what |-> what, tick |-> L.tick, mu |-> m.mu, omega |-> m.omega,
                  inf |-> m.alpha[1] = 0,
                  alpha_inv |-> IF m.alpha[1] # 0 THEN <<m.alpha[2], m.alpha[1]>>
                                ELSE <<0, 0>>]]

\* the report lines of lattice.py: 1/a
report_lattice(L, what) ==
    LET m == _measure(L)
    IN  IF m.alpha[1] = 0
        THEN [exc |-> "ZeroDivisionError", out |-> L.out]
        ELSE [exc |-> "none",
              out |-> [what |-> what, tick |-> L.tick, mu |-> m.mu, omega |-> m.omega,
                       inf |-> FALSE, alpha_inv |-> <<m.alpha[2], m.alpha[1]>>]]

report(L, what) ==
    IF L.kind = "universe" THEN report_universe(L, what) ELSE report_lattice(L, what)

\* range(1, 51) of the main block of universe.py makes 50 iterations
TickLimit == 50

\* the for loop of the main block goes on while iterations are left
more_ticks(L) == L.tick_num < TickLimit

\* the three nested loops stopping one cell short
sweep_done_early(L) == L.pos = L.size * L.size * L.size - 1

\* the three nested loops have computed every cell
sweep_done(L) == L.pos = L.size * L.size * L.size

\* the loop begins an iteration: `for tick_num in range(1, 51)` binds the
\* next tick_num, `while True` goes on (until the model's cap); next_grid
\* is still what the previous iteration left
LoopHead(u) ==
    LET L == lat[u]
    IN  /\ L.pc = "loop"
        /\ IF L.mode = "main" THEN more_ticks(L) ELSE L.tick < L.cap
        /\ lat' = [lat EXCEPT ![u] =
              [L EXCEPT !.pc = "head",
                        !.tick_num = IF L.mode = "main" THEN L.tick_num + 1 ELSE L.tick_num]]
        /\ UNCHANGED <<engine, call, acc, steps>>

\* next_grid = self.grid: the next grid is the current one, not a copy
fresh_next_grid_without_copy(L) == [next_grid |-> L.grid, shared |-> TRUE]

\* the next grid is a new object
\*   universe.py: a grid filled with engine.O; lattice.py: np.copy(self.grid)
fresh_next_grid(L) ==
    [next_grid |-> IF L.kind = "universe" THEN EmptyGrid(L.size) ELSE L.grid,
     shared |-> FALSE]

\* start the next grid
BeginTick(u) ==
    LET L == lat[u]
        n == fresh_next_grid(L)
    IN  /\ L.pc = "head"
        /\ lat' = [lat EXCEPT ![u] =
              [L EXCEPT !.pc = "sweep", !.pos = 0,
                        !.next_grid = n.next_grid, !.shared = n.shared]]
        /\ UNCHANGED <<engine, call, acc, steps>>

\* one pass of the innermost loop: next_grid[i][j][k] = self._update_cell(i, j, k)
UpdateCell(u) ==
    LET L == lat[u]
        c == CellAt(L.size, L.pos)
        total == _update_cell(L, c[1], c[2], c[3])
    IN  /\ L.pc = "sweep"
        /\ ~sweep_done(L)
        /\ lat' = [lat EXCEPT ![u] =
              [L EXCEPT !.next_grid = [L.next_grid EXCEPT ![c] = total],
                        !.grid = IF L.shared THEN [L.next_grid EXCEPT ![c] = total]
                                 ELSE L.grid,
                        !.pos = L.pos + 1]]
        /\ engine' = engine_after([ret |-> total])
        /\ UNCHANGED <<call, acc, steps>>

\* the tick value the loop stores after a sweep
next_tick_skips(L) == IF L.mode = "main" THEN L.tick_num + 1 ELSE L.tick + 2

next_tick(L) == IF L.mode = "main" THEN L.tick_num ELSE L.tick + 1

\* after the sweep: self.grid = next_grid and the tick, two stores with no
\* call or loop edge between them or before the test tick % 10 == 0
EndTick(u) ==
    LET L == lat[u]
        M == [L EXCEPT !.grid = L.next_grid, !.shared = TRUE,
                       !.tick = next_tick(L), !.updates = L.updates + 1]
    IN  /\ L.pc = "sweep"
        /\ sweep_done(L)
        /\ lat' = [lat EXCEPT ![u] =
              [M EXCEPT !.pc = IF M.tick % 10 = 0 THEN "report" ELSE "loop"]]
        /\ UNCHANGED <<engine, call, acc, steps>>

\* the report of every tenth tick: _measure() and the print
PeriodicReport(u) ==
    LET L == lat[u]
        r == report(L, "tick")
    IN  /\ L.pc = "report"
        /\ lat' = [lat EXCEPT ![u] =
              IF r.exc = "none" THEN [L EXCEPT !.pc = "loop", !.out = r.out]
              ELSE [L EXCEPT !.pc = "crashed", !.exc = r.exc]]
        /\ UNCHANGED <<engine, call, acc, steps>>

\* KeyboardInterrupt while the loop runs: run() enters its handler, the
\* main block of universe.py passes (also when its final report is
\* complete and the try block is not yet left)
Interrupt(u) ==
    LET L == lat[u]
    IN  /\ \/ L.pc \in {"loop", "head", "sweep", "report"}
           \/ L.mode = "main" /\ L.pc = "reported"
        /\ lat' = [lat EXCEPT ![u] =
              IF L.mode = "main" THEN [L EXCEPT !.pc = "interrupted"]
              ELSE [L EXCEPT !.pc = "handler"]]
        /\ UNCHANGED <<engine, call, acc, steps>>

\* the handler of run(): the header, _measure() and the final report, up to
\* the last print; run() has not returned yet
HandlerReport(u) ==
    LET L == lat[u]
        r == report(L, "final")
    IN  /\ L.pc = "handler"
        /\ lat' = [lat EXCEPT ![u] =
              IF r.exc = "none" THEN [L EXCEPT !.pc = "reported", !.out = r.out]
              ELSE [L EXCEPT !.pc = "crashed", !.exc = r.exc]]
        /\ UNCHANGED <<engine, call, acc, steps>>

\* a second KeyboardInterrupt while the handler runs is not caught: it
\* leaves run(), before the final report is complete or after it
HandlerInterrupt(u) ==
    LET L == lat[u]
    IN  /\ L.mode = "run"
        /\ L.pc \in {"handler", "reported"}
        /\ lat' = [lat EXCEPT ![u] =
              [L EXCEPT !.pc = "interrupted", !.exc = "KeyboardInterrupt"]]
        /\ UNCHANGED <<engine, call, acc, steps>>

\* the main block of universe.py after its last iteration: the final
\* report, up to the last print
FinalReport(u) ==
    LET L == lat[u]
        r == report(L, "final")
    IN  /\ L.pc = "loop" /\ L.mode = "main" /\ ~more_ticks(L)
        /\ lat' = [lat EXCEPT ![u] = [L EXCEPT !.pc = "reported", !.out = r.out]]
        /\ UNCHANGED <<engine, call, acc, steps>>

\* after the last print: run() returns, the main block leaves its try
Finish(u) ==
    LET L == lat[u]
    IN  /\ L.pc = "reported"
        /\ lat' = [lat EXCEPT ![u] =
              [L EXCEPT !.pc = IF L.mode = "main" THEN "done" ELSE "halted"]]
        /\ UNCHANGED <<engine, call, acc, steps>>

\* the three programs: main.py (lattice.py's run), universe.py's class under
\* run, and the main block of universe.py
Drivers == {<<"lattice", "run">>, <<"universe", "run">>, <<"universe", "main">>}

InitLattice ==
    /\ engine \in Engines
    /\ call = [op |-> "idle"]
    /\ acc = engine.G
    /\ steps = 0
    /\ \E d \in Drivers, size \in 1..MaxSize :
          lat = <<NewSpacetime(d[1], d[2], size, MaxTicks)>>

NextLattice ==
    \/ \E u \in DOMAIN lat : LoopHead(u)
    \/ \E u \in DOMAIN lat : BeginTick(u)
    \/ \E u \in DOMAIN lat : UpdateCell(u)
    \/ \E u \in DOMAIN lat : EndTick(u)
    \/ \E u \in DOMAIN lat : PeriodicReport(u)
    \/ \E u \in DOMAIN lat : Interrupt(u)
    \/ \E u \in DOMAIN lat : HandlerReport(u)
    \/ \E u \in DOMAIN lat : HandlerInterrupt(u)
    \/ \E u \in DOMAIN lat : FinalReport(u)
    \/ \E u \in DOMAIN lat : Finish(u)

SpecLattice == InitLattice /\ [][NextLattice]_vars

\* the engine in either use: called directly, or driving a lattice
InitFrame == Init \/ InitLattice

NextFrame ==
    \/ lat = NoLattice /\ CallPointAdd
    \/ lat = NoLattice /\ CallModinv
    \/ lat = NoLattice /\ Return
    \/ NextLattice

SpecFrame == InitFrame /\ [][NextFrame]_vars

\* two lattices of one size on one engine, the first of universe.py, their
\* run() loops interleaved cell by cell and left uninterrupted
InitPair ==
    /\ engine \in {e \in Engines : e.p <= PairMaxP}
    /\ call = [op |-> "idle"]
    /\ acc = engine.G
    /\ steps = 0
    /\ \E kind \in {"universe", "lattice"}, size \in 1..PairSize :
          lat = << NewSpacetime("universe", "run", size, PairTicks),
                   NewSpacetime(kind, "run", size, PairTicks) >>

NextPair ==
    \/ \E u \in DOMAIN lat : LoopHead(u)
    \/ \E u \in DOMAIN lat : BeginTick(u)
    \/ \E u \in DOMAIN lat : UpdateCell(u)
    \/ \E u \in DOMAIN lat : EndTick(u)

SpecPair == InitPair /\ [][NextPair]_vars

(***************************************************************************)
(* Properties of the kernel.                                               *)
(***************************************************************************)
IsAdd == call.op = "point_add"

IsInv == call.op = "_modinv"

\* the identity or a pair with both coordinates in [0, p)
ReducedOrO(R) == R = None \/ Reduced(R)

\* (x, (-y) mod p), the negation of a pair
Negate(R) == <<R[1], (0 - R[2]) % engine.p>>

\* b^e mod n by repeated multiplication
RECURSIVE ModPow(_, _, _)
ModPow(b, e, n) == IF e = 0 THEN 1 % n ELSE ((b % n) * ModPow(b, e - 1, n)) % n

\* C1 (identity law): a point_add call whose second argument is the point at
\* infinity returns its first argument unchanged, and one whose first argument
\* is the point at infinity returns its second argument unchanged, whatever
\* the other argument is (the identity or any coordinate pair).
C1_IdentityLaw ==
    IsAdd =>
        /\ call.Q = None => (call.exc = "none" /\ call.ret = call.P)
        /\ call.P = None => (call.exc = "none" /\ call.ret = call.Q)

\* C1 witness: a pair that is not even reduced was added to the identity on
\* its right and came back unchanged.
C1_Witness ==
    /\ IsAdd /\ call.Q = None /\ IsPair(call.P) /\ ~Reduced(call.P)
    /\ call.ret = call.P

\* C2 (inverse law): adding a reduced pair (x, y) and (x, (-y) mod p) returns
\* the point at infinity, also when y = 0 and the call is a doubling.
C2_InverseLaw ==
    (IsAdd /\ Reduced(call.P) /\ call.Q = Negate(call.P)) =>
        (call.exc = "none" /\ call.ret = None)

\* C2 witness: a pair with y = 0 was added to its negation, which is itself,
\* and the sum is the point at infinity.
C2_Witness ==
    /\ IsAdd /\ Reduced(call.P) /\ call.P[2] = 0 /\ call.Q = Negate(call.P)
    /\ call.Q = call.P /\ call.ret = None

\* C3 (closure): the sum of two valid points (each the identity or a reduced
\* pair on the curve) is the identity or a reduced pair on the curve.
C3_Closure ==
    (IsAdd /\ Valid(call.P) /\ Valid(call.Q)) =>
        (call.exc = "none" /\ Valid(call.ret))

\* C3 witness: a point of the curve was doubled and the result is a pair on
\* the curve.
C3_Witness ==
    /\ IsAdd /\ Valid(call.P) /\ IsPair(call.P) /\ call.Q = call.P
    /\ IsPair(call.ret) /\ Reduced(call.ret) /\ OnCurve(call.ret)

\* C4 (associativity): for valid points P, Q, R, adding R to the sum P + Q
\* gives the same point as adding P to the sum Q + R.
C4_Associativity ==
    (IsAdd /\ Valid(call.P) /\ Valid(call.Q)) =>
        \A R \in ValidPoints :
            point_add(call.ret, R) = point_add(call.P, point_add(call.Q, R))

\* C4 witness: two distinct pairs of the curve were added, the intermediate
\* sum is a pair with y = 0, and a third pair R takes both groupings to a
\* pair again.
C4_Witness ==
    /\ IsAdd /\ Valid(call.P) /\ Valid(call.Q)
    /\ IsPair(call.P) /\ IsPair(call.Q) /\ call.P # call.Q
    /\ IsPair(call.ret) /\ call.ret[2] = 0
    /\ \E R \in ValidPoints :
          /\ IsPair(R) /\ IsPair(point_add(call.Q, R))
          /\ IsPair(point_add(call.ret, R))
          /\ point_add(call.ret, R) = point_add(call.P, point_add(call.Q, R))

\* C5 (commutativity): for arguments that are each the identity or a reduced
\* pair, point_add(P, Q) and point_add(Q, P) are the same point.
C5_Commutativity ==
    (IsAdd /\ ReducedOrO(call.P) /\ ReducedOrO(call.Q)) =>
        call.ret = point_add(call.Q, call.P)

\* C5 witness: two reduced pairs with different x were added through the
\* chord formula, and the swapped call gives the same pair.
C5_Witness ==
    /\ IsAdd /\ Reduced(call.P) /\ Reduced(call.Q) /\ call.P[1] # call.Q[1]
    /\ IsPair(call.ret) /\ call.ret = point_add(call.Q, call.P)

\* C6 (no zero divisor): in a point_add call on arguments that are each the
\* identity or a reduced pair, no operand handed to _modinv is congruent to
\* 0 mod p.
C6_NoZeroDivisor ==
    (IsAdd /\ ReducedOrO(call.P) /\ ReducedOrO(call.Q)) =>
        \A i \in DOMAIN call.inv : call.inv[i] % engine.p # 0

\* C6 witness: two reduced pairs with the same x that are neither equal nor
\* negations of each other were added; the call returned the identity and
\* _modinv was not reached.
C6_Witness ==
    /\ IsAdd /\ Reduced(call.P) /\ Reduced(call.Q)
    /\ call.P[1] = call.Q[1] /\ call.P[2] # call.Q[2]
    /\ (call.P[2] + call.Q[2]) % engine.p # 0
    /\ call.ret = None /\ call.inv = <<>>

\* C7 (the claim as stated): a _modinv call whose operand is congruent to
\* 0 mod p fails with an error and returns no value.
C7_ZeroOperandFails ==
    (IsInv /\ call.a % engine.p = 0) => call.exc # "none"

\* C8 (modular inverse): for an operand a with a mod p # 0, negative or
\* beyond p included, _modinv returns the only u in [0, p) with
\* u*a mod p = 1, which is a^(p-2) mod p.
C8_ModinvCorrect ==
    (IsInv /\ call.a % engine.p # 0) =>
        /\ call.exc = "none"
        /\ call.ret \in Field
        /\ (call.ret * call.a) % engine.p = 1
        /\ \A u \in Field : (u * call.a) % engine.p = 1 => u = call.ret
        /\ call.ret = ModPow(call.a, engine.p - 2, engine.p)

\* C8 witness: a negative operand was inverted.
C8_Witness ==
    /\ IsInv /\ call.a < 0 /\ call.a % engine.p # 0
    /\ call.ret \in Field /\ (call.ret * call.a) % engine.p = 1

\* n*R by double-and-add: halve an even scalar and double the point,
\* take one off an odd scalar and add the point
RECURSIVE ScalarMul(_, _)
ScalarMul(n, R) ==
    IF n = 0 THEN None
    ELSE IF n % 2 = 0
        THEN LET H == ScalarMul(n \div 2, R) IN point_add(H, H)
        ELSE point_add(ScalarMul(n - 1, R), R)

\* C9 (the claim as stated): two pairs with integer coordinates, P.x
\* congruent to Q.x and P.y congruent to -Q.y mod p, add to the identity.
C9_NegationModular ==
    (/\ IsAdd /\ IsPair(call.P) /\ IsPair(call.Q)
     /\ (call.P[1] - call.Q[1]) % engine.p = 0
     /\ (call.P[2] + call.Q[2]) % engine.p = 0) =>
        call.ret = None

(***************************************************************************)
(* Properties of the stepping wrapper.                                     *)
(***************************************************************************)
\* C11 (step / scalar consistency): after k calls of step() the counter is
\* k, at most one call per unit, and the accumulator is (k+1)*G as computed
\* by double-and-add, also after the accumulator has been the identity.
C11_StepScalar ==
    /\ steps \in 0..MaxSteps
    /\ acc = ScalarMul(steps + 1, engine.G)

\* C11 witness: the accumulator went through the identity and is G again
\* after at least two calls.
C11_Witness ==
    /\ steps >= 2 /\ acc = engine.G
    /\ \E n \in 1..(steps - 1) : ScalarMul(n + 1, engine.G) = None

(***************************************************************************)
(* Properties of the lattices.                                             *)
(***************************************************************************)
\* the own value of cell c and its six torus neighbours, in the order
\* j+1, j-1, i+1, i-1, k+1, k-1, added from the left over grid g
SevenSum(g, size, c) ==
    LET at(i, j, kk) == g[<<i % size, j % size, kk % size>>]
        i0 == c[1]
        j0 == c[2]
        k0 == c[3]
    IN  point_add(point_add(point_add(point_add(point_add(point_add(
            at(i0, j0, k0), at(i0, j0 + 1, k0)), at(i0, j0 - 1, k0)),
            at(i0 + 1, j0, k0)), at(i0 - 1, j0, k0)),
            at(i0, j0, k0 + 1)), at(i0, j0, k0 - 1))

\* the grid one synchronous update after g
TickOf(g, size) == [c \in Cells(size) |-> SevenSum(g, size, c)]

\* the grid a lattice of this size holds after t ticks when it runs alone
RECURSIVE AloneGrid(_, _)
AloneGrid(size, t) ==
    IF t = 0
    THEN [c \in Cells(size) |->
            IF c = <<size \div 2, size \div 2, size \div 2>> THEN engine.G ELSE None]
    ELSE \* the previous grid is bound as a value, so each of its cells is
         \* computed once
         LET known == {h \in {AloneGrid(size, t - 1)} : h # EmptyGrid(size) \/ TRUE}
         IN  CHOOSE g \in {TickOf(h, size) : h \in known} : TRUE

\* the group sum of the cells lo .. hi-1 (in sweep order) of grid g, and
\* of all its cells
RECURSIVE SumRange(_, _, _, _)
SumRange(g, size, lo, hi) ==
    IF hi = lo THEN None
    ELSE IF hi = lo + 1 THEN g[CellAt(size, lo)]
    ELSE LET mid == (lo + hi) \div 2
         IN  point_add(SumRange(g, size, lo, mid), SumRange(g, size, mid, hi))

GroupSum(g, size) == SumRange(g, size, 0, size * size * size)

\* (7^t)*G, one factor 7 at a time
RECURSIVE SevenPowG(_)
SevenPowG(t) == IF t = 0 THEN engine.G ELSE ScalarMul(7, SevenPowG(t - 1))

\* R, R + G, ..., R + (n-1)*G and the identity
RECURSIVE MultiplesFrom(_, _)
MultiplesFrom(R, n) ==
    IF n = 0 THEN {None}
    ELSE {R} \cup MultiplesFrom(point_add(R, engine.G), n - 1)

\* the identity and the multiples of G (the order of G is below 2p + 2)
MultiplesOfG == MultiplesFrom(engine.G, 2 * engine.p + 1)

C13_Independent ==
    [][\A u \in DOMAIN lat :
          /\ (lat'[u].grid # lat[u].grid \/ lat'[u].tick # lat[u].tick) =>
                lat'[u].grid = AloneGrid(lat'[u].size, lat'[u].tick)
          /\ lat'[u] # lat[u] =>
                \A w \in DOMAIN lat \ {u} :
                    lat'[w].grid = lat[w].grid /\ lat'[w].tick = lat[w].tick]_vars

\* C13 witness: two universe.py lattices of size 2, one after its second
\* tick, the other in the middle of its second sweep.
C13_Witness ==
    /\ DOMAIN lat = {1, 2}
    /\ lat[1].kind = "universe" /\ lat[2].kind = "universe"
    /\ lat[1].size = 2
    /\ lat[1].tick = 2
    /\ lat[2].tick = 1 /\ lat[2].pc = "sweep" /\ lat[2].pos = 3
    /\ lat[1].grid # lat[2].grid

\* C14 (synchronous update): the grid and the tick stay as they are while
\* the cells are swept; the tick changes only once all size^3 cells are
\* computed, by exactly 1, and then every cell holds the left-to-right sum
\* of its own previous value and its six torus neighbours' previous values;
\* the grid changes only together with the tick.
C14_SynchronousTick ==
    [][\A u \in DOMAIN lat :
          /\ (lat[u].pc = "sweep" /\ lat'[u].pc = "sweep") =>
                (lat'[u].grid = lat[u].grid /\ lat'[u].tick = lat[u].tick)
          /\ lat'[u].tick # lat[u].tick =>
                /\ lat[u].pos = lat[u].size * lat[u].size * lat[u].size
                /\ lat'[u].tick = lat[u].tick + 1
                /\ lat'[u].grid = TickOf(lat[u].grid, lat[u].size)
          /\ lat'[u].grid # lat[u].grid => lat'[u].tick # lat[u].tick]_vars

\* C14 witness: a lattice of size 3 or more, where the six neighbours of a
\* cell are six different cells, has made two ticks and holds a pair other
\* than G outside its centre cell.
C14_Witness ==
    \E u \in DOMAIN lat :
        /\ lat[u].size >= 3 /\ lat[u].tick = 2 /\ lat[u].pc = "loop"
        /\ \E c \in Cells(lat[u].size) :
              /\ c # <<lat[u].size \div 2, lat[u].size \div 2, lat[u].size \div 2>>
              /\ IsPair(lat[u].grid[c]) /\ lat[u].grid[c] # engine.G

\* C15 (group sum): a new lattice holds G at the centre cell and the
\* identity elsewhere; between ticks, after t of them, every cell is the
\* identity or a multiple of G and the group sum of all cells is (7^t)*G.
C15_GroupSum ==
    \A u \in DOMAIN lat :
        LET L == lat[u]
            centre == <<L.size \div 2, L.size \div 2, L.size \div 2>>
        IN  /\ L.updates = 0 =>
                  \A c \in Cells(L.size) :
                      L.grid[c] = IF c = centre THEN engine.G ELSE None
            /\ L.pc \in {"loop", "report", "done"} =>
                  /\ \A c \in Cells(L.size) : L.grid[c] \in MultiplesOfG
                  /\ GroupSum(L.grid, L.size) = SevenPowG(L.tick)

\* C15 witness: after three ticks a lattice of size 2 holds several pairs
\* and their group sum, 343*G, is not the identity.
C15_Witness ==
    \E u \in DOMAIN lat :
        /\ lat[u].size = 2 /\ lat[u].tick = 3 /\ lat[u].pc = "loop"
        /\ Cardinality(ActiveCells(lat[u])) >= 2
        /\ GroupSum(lat[u].grid, lat[u].size) # None
        /\ GroupSum(lat[u].grid, lat[u].size) = ScalarMul(343, engine.G)

\* C16 (the two classes agree): a universe.py lattice and a lattice.py
\* lattice of one size on one engine hold the same grid whenever they have
\* made the same number of ticks.
C16_ClassesAgree ==
    (/\ DOMAIN lat = {1, 2}
     /\ lat[1].kind = "universe" /\ lat[2].kind = "lattice"
     /\ lat[1].size = lat[2].size
     /\ lat[1].tick = lat[2].tick) =>
        lat[1].grid = lat[2].grid

\* C16 witness: both classes have made two ticks on the same engine and
\* hold the same grid, which has pairs in it.
C16_Witness ==
    /\ DOMAIN lat = {1, 2}
    /\ lat[1].kind = "universe" /\ lat[2].kind = "lattice"
    /\ lat[1].size = 2 /\ lat[2].size = 2
    /\ lat[1].tick = 2 /\ lat[2].tick = 2
    /\ lat[1].grid = lat[2].grid
    /\ ActiveCells(lat[1]) # {}

C18_BoundedDriver ==
    \A u \in DOMAIN lat :
        LET L == lat[u]
        IN  /\ L.mode = "main" =>
                  /\ L.tick = L.updates
                  /\ L.updates <= 50
                  /\ L.pc \in {"reported", "done"} =>
                        (L.tick = 50 /\ L.updates = 50 /\ L.out.what = "final")
                  /\ L.pc \in {"loop", "head", "sweep", "report", "reported",
                              "done", "interrupted"}
            /\ (L.mode = "run" /\ L.kind = "universe") =>
                  /\ L.pc \in {"loop", "head", "sweep", "report", "handler",
                              "reported", "halted", "interrupted"}
                  /\ L.pc \in {"reported", "halted"} =>
                        (L.out.what = "final" /\ L.out.tick = L.tick /\ L.exc = "none")
                  /\ L.pc = "interrupted" => L.exc = "KeyboardInterrupt"

\* C18 witness: the main block has run to its end after 50 updates.
C18_Witness ==
    \E u \in DOMAIN lat :
        /\ lat[u].mode = "main" /\ lat[u].pc = "done"
        /\ lat[u].tick = 50 /\ lat[u].updates = 50
        /\ lat[u].out.what = "final"

====
